---- MODULE Spec2Model ----
(***************************************************************************)
(* Model of train_clenshaw_linkx.py: the cross-validation driver (main),   *)
(* one training run (run) with its dual-optimizer epoch loop, the early    *)
(* stopper it consults and the checkpoint file the stopper and run share.  *)
(*                                                                         *)
(* Numerical work is abstracted: a parameter state is identified by the    *)
(* run that produced it and by how many Adam and SGD steps were applied    *)
(* to it (a "state dict"), a validation loss is any value of 0..MaxLoss,   *)
(* and a metric is the symbolic result of evaluating one state dict on     *)
(* one mask.  Control flow, call order and file effects follow the source  *)
(* statement by statement.                                                 *)
(***************************************************************************)
EXTENDS Integers, Sequences, FiniteSets, TLC

----------------------------------------------------------------------------
(* Bounds of the model *)

MaxEpochs == 3

MaxCV == 2

MaxPatience == 2

MaxLoss == 2

MaxSeed == 2

MaxStartCV == 1

(* Program constants *)

RandMax == 10000

DefaultSeed == 42

----------------------------------------------------------------------------
(* Configuration values *)

\* argparse default of --dataset is "cora" (line 185), of --model "ChebNN".
DatasetNames == {"twitch-gamer", "Penn94", "genius", "cora"}

ModelNames == {"ChebNN", "GCN"}

\* The file at args.es_ckpt + '.pt' is never removed by the program, so an
\* execution starts either without it or with the one an earlier execution left.
NoStateDict == [run |-> -2, w |-> 0, alpha |-> 0]

StaleStateDict == [run |-> -1, w |-> 0, alpha |-> 0]

NoCheckpoint == [exists |-> FALSE, sd |-> NoStateDict]

StaleCheckpoint == [exists |-> TRUE, sd |-> StaleStateDict]

NoMasks == [policy |-> "none", key |-> -1]

NoModel == [kind |-> "None", mode |-> "train", sd |-> NoStateDict]

NoStopper == [built |-> FALSE, has_best |-> FALSE, best_score |-> 0, counter |-> 0,
              early_stop |-> FALSE, patience |-> 0]

NoMetric == [run |-> -1, split |-> "none", mode |-> "none", phase |-> "none"]

NoVal == [acc |-> NoMetric, loss |-> -1]

NoLoss == [loss_fcn |-> "none", evaluator |-> "none", labels |-> "int"]

----------------------------------------------------------------------------
(* State of one execution of main *)

VARIABLES
  args,         \* the parsed command line (read-only after set_args)
  pc,           \* position in main / run
  err,          \* the exception that ended the process, "" while none
  rng,          \* state of the process-wide random generator
  data,         \* the loader object: loaded, seeds, masks, normalized adjacency
  model_seeds,  \* main's model_seeds list
  cv_id,        \* main's loop variable
  accs,         \* main's accs list
  val_accs,     \* main's val_accs list
  report,       \* what the final log line aggregated, one entry per report
  model_seed,   \* run's parameter
  lossCfg,      \* run's loss_fcn / evaluator / label encoding
  model,        \* run's model object
  optimizers,   \* run's optimizers list
  oi,           \* index of the for-loop over optimizers
  opt,          \* per optimizer: gradient status, zero_grad and step counts
  stopper,      \* run's EarlyStopping object
  epoch,        \* run's loop variable
  val,          \* (val_acc, val_loss) of the last evaluate on the validation mask
  test_acc,     \* run's test_acc
  ckpt,         \* the checkpoint file
  hist,         \* history of the current run (observation only)
  trace,        \* history of the execution (observation only)
  env           \* what the imported ChebNN class is like: the shape its forward returns

mvars == <<args, pc, err, rng, data, model_seeds, cv_id, accs, val_accs, report,
           model_seed, lossCfg, model, optimizers, oi, opt, stopper, epoch, val,
           test_acc, ckpt, hist, trace, env>>

(* State of two executions side by side, for the reproducibility claims *)

VARIABLES
  x_args,        \* per execution: seed, n_cv, start_cv, dataset
  x_pc,          \* per execution: position in main
  x_rng,         \* per execution: generator state
  x_seeds,       \* per execution: data.seeds
  x_model_seeds, \* per execution: model_seeds
  x_cv,          \* per execution: cv_id
  x_runs         \* per execution: the (split seed, model seed) each run received

xvars == <<x_args, x_pc, x_rng, x_seeds, x_model_seeds, x_cv, x_runs>>

vars == <<mvars, env, xvars>>

----------------------------------------------------------------------------
(* Pure helpers *)

Last(s) == s[Len(s)]

\* reset_random_seeds: the generator state is a function of the seed alone.
reset_random_seeds(seed) == seed % (RandMax + 1)

\* One random.randint(0, 10000): the generator advances deterministically and
\* the value drawn is its new state.
randint(st) == (st * 75 + 74) % (RandMax + 1)

\* [random.randint(0,10000) for _ in range(n)] from generator state st.
RECURSIVE RandList(_, _)
RandList(st, n) ==
  IF n <= 0 THEN [vals |-> <<>>, st |-> st]
  ELSE LET v == randint(st)
           rest == RandList(v, n - 1)
       IN [vals |-> <<v>> \o rest.vals, st |-> rest.st]

\* The generator state main works from after line 154; prev is the state the
\* interpreter started with (seeded from the operating system).
MainSeedState_unseeded(seed, prev) == prev

MainSeedState(seed, prev) == reset_random_seeds(seed)

model_seed_arg_first(seeds, cv) == seeds[1]

\* main, line 173: model_seed=model_seeds[cv_id]
model_seed_arg(seeds, cv) == seeds[cv + 1]

\* Initialising the parameters of a new model (line 105) and the dropout of a forward
\* pass in training mode (lines 37-38, 119) draw from the generator and advance it.
consume(st) == randint(st)

\* main, line 156
SplitSeeds(st, n_cv) == RandList(st, n_cv)

\* main, line 157: drawn from the generator as the split seeds left it
ModelSeeds(st, n_cv) == RandList(st, n_cv)

DatasetRecognized_with_default(dataset) ==
  dataset \in {"twitch-gamer", "Penn94", "genius", "cora"}

\* build_dataset, line 21
DatasetRecognized(dataset) == dataset \in {"twitch-gamer", "Penn94", "genius"}

FixedSplit_without_genius(dataset) == dataset \in {"twitch-gamer", "Penn94"}

\* run, line 89
FixedSplit(dataset) == dataset \in {"twitch-gamer", "Penn94", "genius"}

\* data.load_mask(): the masks the dataset ships with.
FixedMasks(dataset) == [policy |-> "fixed", key |-> 0]

\* data.load_mask(p=(0.6,0.2,0.2)): masks drawn from the run's split seed.
RandomMasks(seeds, cv) == [policy |-> "random", key |-> seeds[cv + 1]]

\* run, lines 89-92
load_mask(dataset, seeds, cv) ==
  IF FixedSplit(dataset) THEN FixedMasks(dataset) ELSE RandomMasks(seeds, cv)

\* run, lines 96-102
select_loss_without_one_hot(dataset) ==
  IF dataset # "genius"
  THEN [loss_fcn |-> "NLLLoss", evaluator |-> "acc", labels |-> "int"]
  ELSE [loss_fcn |-> "BCEWithLogitsLoss", evaluator |-> "rocauc", labels |-> "int"]

\* run, lines 96-102; labels is a local of run, rebound at line 102
select_loss(dataset) ==
  IF dataset # "genius"
  THEN [loss_fcn |-> "NLLLoss", evaluator |-> "acc", labels |-> "int"]
  ELSE [loss_fcn |-> "BCEWithLogitsLoss", evaluator |-> "rocauc", labels |-> "one_hot_float"]

\* build_model: a fresh ChebNN for 'ChebNN'; any other name falls off the end
\* of the function and returns None.
build_model(name, cv) ==
  IF name = "ChebNN"
  THEN [kind |-> "ChebNN", mode |-> "train", sd |-> [run |-> cv, w |-> 0, alpha |-> 0]]
  ELSE NoModel

build_optimizers_adam_only(m) == <<"Adam">>

\* build_optimizers: [optimizer, optimizer_2]
build_optimizers(m) == <<"Adam", "SGD">>

OptimizerNames == {"Adam", "SGD"}

FreshOpt == [o \in OptimizerNames |-> [grad |-> "none", zeroed |-> 0, stepped |-> 0]]

apply_step_any_rate(sd, o, lr3) ==
  IF o = "Adam" THEN [sd EXCEPT !.w = @ + 1] ELSE [sd EXCEPT !.alpha = @ + 1]

\* optimizer.step(): Adam owns params1/params2, SGD owns alpha_params and moves
\* them by lr3 times the momentum buffer, that is not at all when lr3 = 0.
\* args.lr3 is 0 or, standing for every positive rate, 1.
apply_step(sd, o, lr3) ==
  IF o = "Adam" THEN [sd EXCEPT !.w = @ + 1]
  ELSE IF lr3 = 0 THEN sd ELSE [sd EXCEPT !.alpha = @ + 1]

\* loss.backward(): every parameter's .grad accumulates.
backward(g) == IF g \in {"none", "zero"} THEN "fresh" ELSE "accumulated"

\* build_stopper, line 60
build_stopper(patience) ==
  [built |-> TRUE, has_best |-> FALSE, best_score |-> 0, counter |-> 0,
   early_stop |-> FALSE, patience |-> patience]

\* EarlyStopping.step: does this call persist the model?
stopper_saves(s, score) == (~s.has_best) \/ score < s.best_score

\* EarlyStopping.step: the stopper after the call; its early_stop is the value returned.
stopper_step(s, score) ==
  IF stopper_saves(s, score)
  THEN [s EXCEPT !.has_best = TRUE, !.best_score = score, !.counter = 0]
  ELSE [s EXCEPT !.counter = @ + 1, !.early_stop = (s.counter + 1 = s.patience)]

StopperConsulted_after_first_epoch(early_stop, ep) == early_stop /\ ep >= 1

\* run, line 136
StopperConsulted(early_stop, ep) == early_stop /\ ep >= 0

model_train_skipped(m) == m

\* run, line 115: model.train()
model_train(m) == [m EXCEPT !.mode = "train"]

loop_break_never(stop) == FALSE

\* run, lines 138-139: a true return of stopper_step breaks the epoch loop
loop_break(stop) == stop

\* What model(features) may return: a logits tensor, a tuple or list whose first
\* element is the logits tensor, or anything else.
ForwardOutputs == {"tensor", "container", "other"}

\* run, lines 119-120: logits = model(features); logits[data.train_mask]
\* a tuple or list cannot be indexed by a mask tensor
train_consume(out) == IF out = "tensor" THEN "logits" ELSE "TypeError"

\* evaluate, lines 68-71: a non-tensor is replaced by its element 0, then indexed
\* by the mask
eval_consume(out) ==
  IF out = "tensor" THEN "logits"
  ELSE IF out = "container" THEN "logits" ELSE "TypeError"

\* evaluate: what one call works with: the mode the model is in when its forward
\* runs, and the loss function, metric mode and labels it was passed
evaluate_call(site, m, cfg) ==
  [site |-> site, mode |-> m.mode, loss_fcn |-> cfg.loss_fcn,
   evaluator |-> cfg.evaluator, labels |-> cfg.labels]

\* evaluate: the metric of one evaluation, by run, mask and metric mode.
Metric(cv, split, mode, phase) == [run |-> cv, split |-> split, mode |-> mode, phase |-> phase]

append_val_acc(a, va, ta) == Append(a, va)

\* main, line 174
append_test_acc(a, va, ta) == Append(a, ta)

\* main, line 177: np.array(accs).mean() and np.array(accs).std(), the mean and the
\* standard deviation with divisor n - ddof, ddof = 0, over the n entries of accs
aggregate(a) == [of |-> a, n |-> Len(a), ddof |-> 0]

FreshHist == [val |-> <<>>, es |-> <<>>, writes |-> 0, loaded |-> NoStateDict,
              final |-> <<>>, fwd |-> <<>>, used |-> {}, init |-> -1]

FreshTrace == [mask_log |-> <<>>, models |-> 0, optim |-> 0, trained |-> FALSE,
               ckpt_writes |-> 0, runs_done |-> 0, started |-> 0]

----------------------------------------------------------------------------
(* One execution: initial state *)

\* args.patience is read at line 60 only, in build_stopper, which run calls under
\* args.early_stop only (line 108): without early stop one patience stands for all.
Configs ==
  {c \in [dataset : DatasetNames, model : ModelNames, early_stop : BOOLEAN,
          patience : 0..MaxPatience, n_epochs : 0..MaxEpochs, n_cv : 0..MaxCV,
          seed : {DefaultSeed}, lr3 : {0, 1}] :
     c.early_stop \/ c.patience = MaxPatience}

NoData == [loaded |-> FALSE, normalized |-> FALSE, seeds |-> <<>>, masks |-> NoMasks]

MInit ==
  /\ args \in Configs
  /\ pc = "main"
  /\ err = ""
  /\ rng \in 0..1
  /\ data = NoData
  /\ model_seeds = <<>>
  /\ cv_id = 0
  /\ accs = <<>>
  /\ val_accs = <<>>
  /\ report = <<>>
  /\ model_seed = -1
  /\ lossCfg = NoLoss
  /\ model = NoModel
  /\ optimizers = <<>>
  /\ oi = 1
  /\ opt = FreshOpt
  /\ stopper = NoStopper
  /\ epoch = 0
  /\ val = NoVal
  /\ test_acc = NoMetric
  /\ ckpt \in {NoCheckpoint, StaleCheckpoint}
  /\ hist = FreshHist
  /\ trace = FreshTrace
  /\ env \in [forward_out : ForwardOutputs]

runLocals == <<model_seed, lossCfg, model, optimizers, oi, opt, stopper, epoch, val, test_acc>>

mainLocals == <<model_seeds, cv_id, accs, val_accs, report>>

Abort(e) == pc' = "aborted" /\ err' = e

----------------------------------------------------------------------------
(* main *)

\* line 154
main_reset_random_seeds ==
  /\ pc = "main"
  /\ rng' = MainSeedState(args.seed, rng)
  /\ pc' = "build_dataset"
  /\ UNCHANGED <<args, err, data, mainLocals, runLocals, ckpt, hist, trace, env, xvars>>

\* line 155: build_dataset raises before the loader exists, else loads the data
main_build_dataset ==
  /\ pc = "build_dataset"
  /\ IF DatasetRecognized(args.dataset)
     THEN /\ data' = [data EXCEPT !.loaded = TRUE]
          /\ pc' = "draw_seeds"
          /\ err' = err
     ELSE /\ Abort("ValueError")
          /\ data' = data
  /\ UNCHANGED <<args, rng, mainLocals, runLocals, ckpt, hist, trace, env, xvars>>

\* lines 156-159
main_draw_seeds ==
  /\ pc = "draw_seeds"
  /\ LET s == SplitSeeds(rng, args.n_cv)
         m == ModelSeeds(s.st, args.n_cv)
     IN /\ data' = [data EXCEPT !.seeds = s.vals]
        /\ model_seeds' = m.vals
        /\ rng' = m.st
  /\ pc' = "prepare"
  /\ UNCHANGED <<args, err, cv_id, accs, val_accs, report, runLocals, ckpt, hist, trace, env, xvars>>

\* lines 161-170
main_prepare ==
  /\ pc = "prepare"
  /\ data' = [data EXCEPT !.normalized = TRUE]
  /\ accs' = <<>>
  /\ val_accs' = <<>>
  /\ cv_id' = 0
  /\ pc' = "for_cv"
  /\ UNCHANGED <<args, err, rng, model_seeds, report, runLocals, ckpt, hist, trace, env, xvars>>

\* lines 172-173: the next run is called, or the loop is over
main_for_cv ==
  /\ pc = "for_cv"
  /\ IF cv_id < args.n_cv
     THEN /\ model_seed' = model_seed_arg(model_seeds, cv_id)
          /\ lossCfg' = NoLoss
          /\ model' = NoModel
          /\ optimizers' = <<>>
          /\ oi' = 1
          /\ opt' = FreshOpt
          /\ stopper' = NoStopper
          /\ epoch' = 0
          /\ val' = NoVal
          /\ test_acc' = NoMetric
          /\ hist' = FreshHist
          /\ trace' = [trace EXCEPT !.started = @ + 1]
          /\ pc' = "load_mask"
     ELSE /\ pc' = "report"
          /\ UNCHANGED <<runLocals, hist, trace>>
  /\ UNCHANGED <<args, err, rng, data, mainLocals, ckpt, env, xvars>>

\* lines 177-178
main_report ==
  /\ pc = "report"
  /\ report' = Append(report, aggregate(accs))
  /\ pc' = "done"
  /\ UNCHANGED <<args, err, rng, data, model_seeds, cv_id, accs, val_accs, runLocals,
                 ckpt, hist, trace, env, xvars>>

----------------------------------------------------------------------------
(* run: construction *)

\* lines 89-94
run_load_mask ==
  /\ pc = "load_mask"
  /\ data' = [data EXCEPT !.masks = load_mask(args.dataset, data.seeds, cv_id)]
  /\ trace' = [trace EXCEPT !.mask_log = Append(@, data'.masks)]
  /\ pc' = "reset_seeds"
  /\ UNCHANGED <<args, err, rng, mainLocals, runLocals, ckpt, hist, env, xvars>>

\* line 95
run_reset_random_seeds ==
  /\ pc = "reset_seeds"
  /\ rng' = reset_random_seeds(model_seed)
  /\ pc' = "select_loss"
  /\ UNCHANGED <<args, err, data, mainLocals, runLocals, ckpt, hist, trace, env, xvars>>

\* lines 96-102
run_select_loss ==
  /\ pc = "select_loss"
  /\ lossCfg' = select_loss(args.dataset)
  /\ pc' = "build_model"
  /\ UNCHANGED <<args, err, rng, data, mainLocals, model_seed, model, optimizers, oi, opt,
                 stopper, epoch, val, test_acc, ckpt, hist, trace, env, xvars>>

\* lines 105-106
run_build_model ==
  /\ pc = "build_model"
  /\ model' = build_model(args.model, cv_id)
  /\ rng' = IF model'.kind = "None" THEN rng ELSE consume(rng)
  /\ hist' = [hist EXCEPT !.init = rng]
  /\ trace' = [trace EXCEPT !.models = IF model'.kind = "None" THEN @ ELSE @ + 1]
  /\ pc' = "build_optimizers"
  /\ UNCHANGED <<args, err, data, mainLocals, model_seed, lossCfg, optimizers, oi, opt,
                 stopper, epoch, val, test_acc, ckpt, env, xvars>>

\* line 107: model.params1 of None raises AttributeError
run_build_optimizers ==
  /\ pc = "build_optimizers"
  /\ IF model.kind = "None"
     THEN /\ Abort("AttributeError")
          /\ UNCHANGED <<optimizers, opt, trace>>
     ELSE /\ optimizers' = build_optimizers(model)
          /\ opt' = FreshOpt
          /\ trace' = [trace EXCEPT !.optim = @ + 1]
          /\ pc' = "build_stopper"
          /\ err' = err
  /\ UNCHANGED <<args, rng, data, mainLocals, model_seed, lossCfg, model, oi,
                 stopper, epoch, val, test_acc, ckpt, hist, env, xvars>>

\* lines 108-109
run_build_stopper ==
  /\ pc = "build_stopper"
  /\ stopper' = IF args.early_stop THEN build_stopper(args.patience) ELSE stopper
  /\ epoch' = 0
  /\ pc' = "for_epoch"
  /\ UNCHANGED <<args, err, rng, data, mainLocals, model_seed, lossCfg, model, optimizers,
                 oi, opt, val, test_acc, ckpt, hist, trace, env, xvars>>

----------------------------------------------------------------------------
(* run: the epoch loop *)

\* line 112: range(args.n_epochs) yields the next epoch or is exhausted
run_for_epoch ==
  /\ pc = "for_epoch"
  /\ pc' = IF epoch < args.n_epochs THEN "train_mode" ELSE "load_checkpoint"
  /\ UNCHANGED <<args, err, rng, data, mainLocals, runLocals, ckpt, hist, trace, env, xvars>>

\* line 115
run_train_mode ==
  /\ pc = "train_mode"
  /\ model' = model_train(model)
  /\ oi' = 1
  /\ trace' = [trace EXCEPT !.trained = TRUE]
  /\ pc' = "zero_grad"
  /\ UNCHANGED <<args, err, rng, data, mainLocals, model_seed, lossCfg, optimizers, opt,
                 stopper, epoch, val, test_acc, ckpt, hist, env, xvars>>

\* lines 116-117: one iteration of the loop over optimizers
run_zero_grad ==
  /\ pc = "zero_grad"
  /\ LET o == optimizers[oi]
     IN opt' = [opt EXCEPT ![o].grad = "zero", ![o].zeroed = @ + 1]
  /\ IF oi < Len(optimizers)
     THEN oi' = oi + 1 /\ pc' = pc
     ELSE oi' = 1 /\ pc' = "forward"
  /\ UNCHANGED <<args, err, rng, data, mainLocals, model_seed, lossCfg, model, optimizers,
                 stopper, epoch, val, test_acc, ckpt, hist, trace, env, xvars>>

\* lines 119-120: forward pass and training loss on the train mask
run_forward ==
  /\ pc = "forward"
  /\ IF train_consume(env.forward_out) = "logits"
     THEN /\ hist' = [hist EXCEPT !.fwd = Append(@,
                        [mode |-> model.mode,
                         grads |-> [o \in OptimizerNames |-> opt[o].grad],
                         loss_fcn |-> lossCfg.loss_fcn, labels |-> lossCfg.labels])]
          /\ pc' = "backward"
          /\ err' = err
     ELSE /\ Abort(train_consume(env.forward_out))
          /\ hist' = hist
  /\ rng' = consume(rng)
  /\ UNCHANGED <<args, data, mainLocals, runLocals, ckpt, trace, env, xvars>>

\* line 121
run_backward ==
  /\ pc = "backward"
  /\ opt' = [o \in OptimizerNames |-> [opt[o] EXCEPT !.grad = backward(@)]]
  /\ oi' = 1
  /\ pc' = "step"
  /\ UNCHANGED <<args, err, rng, data, mainLocals, model_seed, lossCfg, model, optimizers,
                 stopper, epoch, val, test_acc, ckpt, hist, trace, env, xvars>>

\* lines 124-125: one iteration of the loop over optimizers
run_step ==
  /\ pc = "step"
  /\ LET o == optimizers[oi]
     IN /\ model' = [model EXCEPT !.sd = apply_step(@, o, args.lr3)]
        /\ opt' = [opt EXCEPT ![o].grad = "used", ![o].stepped = @ + 1]
  /\ IF oi < Len(optimizers)
     THEN oi' = oi + 1 /\ pc' = pc
     ELSE oi' = 1 /\ pc' = "evaluate"
  /\ UNCHANGED <<args, err, rng, data, mainLocals, model_seed, lossCfg, optimizers,
                 stopper, epoch, val, test_acc, ckpt, hist, trace, env, xvars>>

\* line 127: evaluate on the validation mask; the loss is whatever the numbers give
run_evaluate ==
  /\ pc = "evaluate"
  /\ model' = [model EXCEPT !.mode = "eval"]
  /\ IF eval_consume(env.forward_out) = "logits"
     THEN /\ \E l \in 0..MaxLoss :
               /\ val' = [acc |-> Metric(cv_id, "val", lossCfg.evaluator, "epoch"), loss |-> l]
               /\ hist' = [hist EXCEPT !.val = Append(@, [loss |-> l, sd |-> model.sd]),
                                       !.used = @ \cup {evaluate_call("epoch", model', lossCfg)}]
          /\ pc' = "stopper"
          /\ err' = err
     ELSE /\ Abort(eval_consume(env.forward_out))
          /\ UNCHANGED <<val, hist>>
  /\ UNCHANGED <<args, rng, data, mainLocals, model_seed, lossCfg, optimizers, oi, opt,
                 stopper, epoch, test_acc, ckpt, trace, env, xvars>>

\* lines 136-139: the stopper is fed the validation loss; a True return breaks the loop
run_stopper ==
  /\ pc = "stopper"
  /\ IF StopperConsulted(args.early_stop, epoch)
     THEN LET score == val.loss
              saved == stopper_saves(stopper, score)
          IN /\ stopper' = stopper_step(stopper, score)
             /\ ckpt' = IF saved THEN [exists |-> TRUE, sd |-> model.sd] ELSE ckpt
             /\ hist' = [hist EXCEPT !.es = Append(@, score),
                                     !.writes = IF saved THEN @ + 1 ELSE @]
             /\ trace' = [trace EXCEPT !.ckpt_writes = IF saved THEN @ + 1 ELSE @]
             /\ IF loop_break(stopper'.early_stop)
                THEN pc' = "load_checkpoint" /\ epoch' = epoch
                ELSE pc' = "for_epoch" /\ epoch' = epoch + 1
     ELSE /\ pc' = "for_epoch"
          /\ epoch' = epoch + 1
          /\ UNCHANGED <<stopper, ckpt, hist, trace>>
  /\ UNCHANGED <<args, err, rng, data, mainLocals, model_seed, lossCfg, model, optimizers,
                 oi, opt, val, test_acc, env, xvars>>

----------------------------------------------------------------------------
(* run: final evaluation *)

\* lines 142-144: th.load of a missing file raises FileNotFoundError
run_load_checkpoint ==
  /\ pc = "load_checkpoint"
  /\ IF args.early_stop
     THEN IF ckpt.exists
          THEN /\ model' = [model EXCEPT !.sd = ckpt.sd]
               /\ hist' = [hist EXCEPT !.loaded = ckpt.sd]
               /\ pc' = "final_val"
               /\ err' = err
          ELSE /\ Abort("FileNotFoundError")
               /\ UNCHANGED <<model, hist>>
     ELSE /\ pc' = "final_val"
          /\ UNCHANGED <<err, model, hist>>
  /\ UNCHANGED <<args, rng, data, mainLocals, model_seed, lossCfg, optimizers, oi, opt,
                 stopper, epoch, val, test_acc, ckpt, trace, env, xvars>>

\* The loss of a state dict evaluated before is the loss it had then.
KnownLosses(sd) == {hist.val[i].loss : i \in {j \in 1..Len(hist.val) : hist.val[j].sd = sd}}

\* line 145
run_final_val ==
  /\ pc = "final_val"
  /\ model' = [model EXCEPT !.mode = "eval"]
  /\ IF eval_consume(env.forward_out) = "logits"
     THEN /\ \E l \in (IF KnownLosses(model.sd) # {} THEN KnownLosses(model.sd)
                        ELSE 0..MaxLoss) :
               val' = [acc |-> Metric(cv_id, "val", lossCfg.evaluator, "final"), loss |-> l]
          /\ hist' = [hist EXCEPT !.final = Append(@, [split |-> "val", sd |-> model.sd]),
                                  !.used = @ \cup {evaluate_call("final", model', lossCfg)}]
          /\ pc' = "final_test"
          /\ err' = err
     ELSE /\ Abort(eval_consume(env.forward_out))
          /\ UNCHANGED <<val, hist>>
  /\ UNCHANGED <<args, rng, data, mainLocals, model_seed, lossCfg, optimizers, oi, opt,
                 stopper, epoch, test_acc, ckpt, trace, env, xvars>>

\* line 147
run_final_test ==
  /\ pc = "final_test"
  /\ model' = [model EXCEPT !.mode = "eval"]
  /\ IF eval_consume(env.forward_out) = "logits"
     THEN /\ test_acc' = Metric(cv_id, "test", lossCfg.evaluator, "final")
          /\ hist' = [hist EXCEPT !.final = Append(@, [split |-> "test", sd |-> model.sd]),
                                  !.used = @ \cup {evaluate_call("final", model', lossCfg)}]
          /\ pc' = "return"
          /\ err' = err
     ELSE /\ Abort(eval_consume(env.forward_out))
          /\ UNCHANGED <<test_acc, hist>>
  /\ UNCHANGED <<args, rng, data, mainLocals, model_seed, lossCfg, optimizers, oi, opt,
                 stopper, epoch, val, ckpt, trace, env, xvars>>

\* line 149 and main's lines 174-175
run_return ==
  /\ pc = "return"
  /\ accs' = append_test_acc(accs, val.acc, test_acc)
  /\ val_accs' = Append(val_accs, val.acc)
  /\ cv_id' = cv_id + 1
  /\ trace' = [trace EXCEPT !.runs_done = @ + 1]
  /\ pc' = "for_cv"
  /\ UNCHANGED <<args, err, rng, data, model_seeds, report, runLocals, ckpt, hist, env, xvars>>

----------------------------------------------------------------------------
(* Two executions of main, one after the other: lines 153-159 and the seeds *)
(* each call of run receives (lines 172-173, 95).                            *)

Execs == {1, 2}

XConfigs == [seed : 0..MaxSeed, n_cv : 0..MaxCV, start_cv : 0..MaxStartCV]

XIdle ==
  /\ x_args = <<>>
  /\ x_pc = <<>>
  /\ x_rng = <<>>
  /\ x_seeds = <<>>
  /\ x_model_seeds = <<>>
  /\ x_cv = <<>>
  /\ x_runs = <<>>

MIdle ==
  /\ args = [dataset |-> "Penn94", model |-> "ChebNN", early_stop |-> FALSE,
             patience |-> 0, n_epochs |-> 0, n_cv |-> 0, seed |-> DefaultSeed,
             lr3 |-> 1]
  /\ pc = "idle"
  /\ err = ""
  /\ rng = 0
  /\ data = NoData
  /\ model_seeds = <<>>
  /\ cv_id = 0
  /\ accs = <<>>
  /\ val_accs = <<>>
  /\ report = <<>>
  /\ model_seed = -1
  /\ lossCfg = NoLoss
  /\ model = NoModel
  /\ optimizers = <<>>
  /\ oi = 1
  /\ opt = FreshOpt
  /\ stopper = NoStopper
  /\ epoch = 0
  /\ val = NoVal
  /\ test_acc = NoMetric
  /\ ckpt = NoCheckpoint
  /\ hist = FreshHist
  /\ trace = FreshTrace
  /\ env = [forward_out |-> "tensor"]

XInit ==
  /\ MIdle
  /\ x_args \in [Execs -> XConfigs]
  /\ x_pc = [e \in Execs |-> "main"]
  /\ x_rng \in [Execs -> 0..1]
  /\ x_seeds = [e \in Execs |-> <<>>]
  /\ x_model_seeds = [e \in Execs |-> <<>>]
  /\ x_cv = [e \in Execs |-> 0]
  /\ x_runs = [e \in Execs |-> <<>>]

\* The second execution starts once the first has ended.
XTurn(e) == e = 1 \/ x_pc[1] = "done"

\* line 154
x_reset_random_seeds(e) ==
  /\ XTurn(e)
  /\ x_pc[e] = "main"
  /\ x_rng' = [x_rng EXCEPT ![e] = MainSeedState(x_args[e].seed, @)]
  /\ x_pc' = [x_pc EXCEPT ![e] = "build_dataset"]
  /\ UNCHANGED <<x_args, x_seeds, x_model_seeds, x_cv, x_runs, mvars>>

\* line 155: the loader is built and loads the data; it draws nothing from the generator
x_build_dataset(e) ==
  /\ XTurn(e)
  /\ x_pc[e] = "build_dataset"
  /\ x_pc' = [x_pc EXCEPT ![e] = "draw_seeds"]
  /\ UNCHANGED <<x_args, x_rng, x_seeds, x_model_seeds, x_cv, x_runs, mvars>>

\* lines 156-159
x_draw_seeds(e) ==
  /\ XTurn(e)
  /\ x_pc[e] = "draw_seeds"
  /\ LET s == SplitSeeds(x_rng[e], x_args[e].n_cv)
         m == ModelSeeds(s.st, x_args[e].n_cv)
     IN /\ x_seeds' = [x_seeds EXCEPT ![e] = s.vals]
        /\ x_model_seeds' = [x_model_seeds EXCEPT ![e] = m.vals]
        /\ x_rng' = [x_rng EXCEPT ![e] = m.st]
  /\ x_pc' = [x_pc EXCEPT ![e] = "for_cv"]
  /\ UNCHANGED <<x_args, x_cv, x_runs, mvars>>

\* lines 172-173 with run's line 95: run cv_id receives model_seeds[cv_id] and
\* resets the generator to it; the run is logged as cv_id + args.start_cv
x_run(e) ==
  /\ XTurn(e)
  /\ x_pc[e] = "for_cv"
  /\ x_cv[e] < x_args[e].n_cv
  /\ LET i == x_cv[e]
     IN /\ x_runs' = [x_runs EXCEPT ![e] = Append(@,
                        [cv_id |-> i, logged |-> i + x_args[e].start_cv,
                         split_seed |-> x_seeds[e][i + 1],
                         model_seed |-> x_model_seeds[e][i + 1]])]
        /\ x_rng' = [x_rng EXCEPT ![e] = reset_random_seeds(x_model_seeds[e][i + 1])]
        /\ x_cv' = [x_cv EXCEPT ![e] = i + 1]
  /\ UNCHANGED <<x_args, x_pc, x_seeds, x_model_seeds, mvars>>

\* line 172: the loop is over
x_finish(e) ==
  /\ XTurn(e)
  /\ x_pc[e] = "for_cv"
  /\ x_cv[e] >= x_args[e].n_cv
  /\ x_pc' = [x_pc EXCEPT ![e] = "done"]
  /\ UNCHANGED <<x_args, x_rng, x_seeds, x_model_seeds, x_cv, x_runs, mvars>>

XNext ==
  \/ \E e \in Execs : x_reset_random_seeds(e)
  \/ \E e \in Execs : x_build_dataset(e)
  \/ \E e \in Execs : x_draw_seeds(e)
  \/ \E e \in Execs : x_run(e)
  \/ \E e \in Execs : x_finish(e)

PairSpec == XInit /\ [][XNext]_vars

Init == MInit /\ XIdle

Next ==
  \/ main_reset_random_seeds
  \/ main_build_dataset
  \/ main_draw_seeds
  \/ main_prepare
  \/ main_for_cv
  \/ main_report
  \/ run_load_mask
  \/ run_reset_random_seeds
  \/ run_select_loss
  \/ run_build_model
  \/ run_build_optimizers
  \/ run_build_stopper
  \/ run_for_epoch
  \/ run_train_mode
  \/ run_zero_grad
  \/ run_forward
  \/ run_backward
  \/ run_step
  \/ run_evaluate
  \/ run_stopper
  \/ run_load_checkpoint
  \/ run_final_val
  \/ run_final_test
  \/ run_return

Spec == Init /\ [][Next]_vars

\* The program is one sequential process: whenever it has a next statement, it
\* executes it.
LiveSpec == Init /\ [][Next]_vars /\ WF_vars(Next)

----------------------------------------------------------------------------
(* Properties *)

InRun == pc \in {"load_mask", "reset_seeds", "select_loss", "build_model",
                 "build_optimizers", "build_stopper", "for_epoch", "train_mode",
                 "zero_grad", "forward", "backward", "step", "evaluate", "stopper",
                 "load_checkpoint", "final_val", "final_test", "return"}

Min(S) == CHOOSE x \in S : \A y \in S : x <= y

\* C1: with a dataset name outside ('twitch-gamer', 'Penn94', 'genius') main ends in
\* build_dataset's ValueError and nothing has happened by then: no data loaded, no
\* adjacency normalized, no mask loaded, no model or optimizer built, no epoch run,
\* no result collected or reported, and the checkpoint file is as it was found.
C1_UnknownDatasetFailsFast ==
  args.dataset \notin {"twitch-gamer", "Penn94", "genius"} =>
    /\ pc \in {"main", "build_dataset", "aborted"}
    /\ (pc = "aborted" => err = "ValueError")
    /\ data.loaded = FALSE /\ data.normalized = FALSE /\ data.masks = NoMasks
    /\ data.seeds = <<>> /\ model_seeds = <<>>
    /\ model = NoModel /\ optimizers = <<>> /\ stopper = NoStopper
    /\ trace = FreshTrace /\ hist = FreshHist
    /\ accs = <<>> /\ val_accs = <<>> /\ report = <<>>
    /\ ckpt \in {NoCheckpoint, StaleCheckpoint}

C1_Witness ==
  args.dataset = "cora" /\ pc = "aborted" /\ err = "ValueError"

\* C2: a model name other than 'ChebNN' is rejected at startup: while the process is
\* alive or has ended, the dataset has not been loaded, the adjacency has not been
\* normalized, no mask has been loaded and no run has begun.
C2_UnknownModelFailsAtStartup ==
  args.model # "ChebNN" =>
    /\ data.loaded = FALSE
    /\ data.normalized = FALSE
    /\ trace.mask_log = <<>>
    /\ trace.started = 0
    /\ pc # "done"

\* The epochs of the current run whose validation loss is the lowest of the run,
\* earliest first.
IsBestEpoch(i) ==
  /\ i \in 1..Len(hist.val)
  /\ \A j \in 1..Len(hist.val) : hist.val[i].loss <= hist.val[j].loss
  /\ \A j \in 1..(i - 1) : hist.val[j].loss > hist.val[i].loss

FinalEvaluatedOn(sd) ==
  /\ Len(hist.final) = 2
  /\ hist.final[1] = [split |-> "val", sd |-> sd]
  /\ hist.final[2] = [split |-> "test", sd |-> sd]

\* C3: when run returns with early stopping enabled, both final metrics were computed
\* on the state dict reloaded from the checkpoint and that state dict is the snapshot
\* of the earliest epoch of this run with the lowest validation loss; with early
\* stopping disabled they were computed on the in-memory model after the last epoch.
C3_FinalMetricsOnBestSnapshot ==
  pc = "return" =>
    IF args.early_stop
    THEN /\ FinalEvaluatedOn(hist.loaded)
         /\ \E i \in 1..Len(hist.val) : IsBestEpoch(i) /\ hist.val[i].sd = hist.loaded
    ELSE FinalEvaluatedOn([run |-> cv_id, w |-> args.n_epochs,
                           alpha |-> IF args.lr3 = 0 THEN 0 ELSE args.n_epochs])

\* The part of C3 that the code keeps: a run that executed at least one epoch
\* evaluates the snapshot of its earliest best epoch.
BestSnapshotReloaded ==
  (pc = "return" /\ args.early_stop /\ Len(hist.val) >= 1) =>
    /\ FinalEvaluatedOn(hist.loaded)
    /\ \E i \in 1..Len(hist.val) : IsBestEpoch(i) /\ hist.val[i].sd = hist.loaded

StrictlyWorsening(es) == \A i \in 2..Len(es) : es[i] > es[i - 1]

\* The scores the stopper has been fed are the validation losses of the epochs, one
\* call per epoch.
OneCallPerEpoch ==
  /\ Len(hist.es) = Len(hist.val) - (IF pc = "stopper" THEN 1 ELSE 0)
  /\ \A i \in 1..Len(hist.es) : hist.es[i] = hist.val[i].loss

\* Number of calls since the last one that improved on every score before it.
SinceImprovement(es) ==
  Len(es) - Min({i \in 1..Len(es) : \A j \in (i + 1)..Len(es) :
                   \E k \in 1..(j - 1) : es[k] <= es[j]})

StopperContract ==
  /\ OneCallPerEpoch
  /\ stopper.counter = SinceImprovement(hist.es)
  /\ stopper.early_stop <=> (Len(hist.es) >= 1 /\ stopper.counter = stopper.patience)
  /\ StrictlyWorsening(hist.es) =>
       (stopper.early_stop <=> Len(hist.es) = stopper.patience + 1)

\* C4 as stated, for every patience: after each call of a run with early stopping,
\* the stopper has been called once per epoch, its counter is the number of calls since
\* the last improvement, stop is signalled exactly when the counter equals the
\* patience P, and on a strictly worsening sequence exactly on call P+1.
C4_StopOnCallPPlus1 ==
  (InRun /\ stopper.built /\ Len(hist.es) >= 1) => StopperContract

\* C4 amended: the same for every patience P >= 1.
C4_StopOnCallPPlus1_PositivePatience ==
  (InRun /\ stopper.built /\ Len(hist.es) >= 1 /\ args.patience >= 1) => StopperContract

C4_Witness ==
  /\ stopper.built /\ args.patience = 2 /\ stopper.early_stop
  /\ Len(hist.es) = 3 /\ StrictlyWorsening(hist.es)
  /\ pc = "load_checkpoint"

\* C5: with early stopping enabled, a run in which no checkpoint was written never gets
\* past the checkpoint load: it computes no final metric and does not return.
C5_NoCheckpointIsFatal ==
  (args.early_stop /\ InRun /\ hist.writes = 0) =>
    pc \notin {"final_val", "final_test", "return"}

\* C6: two executions of main with the same seed and the same configuration draw the
\* same split seeds and the same model-init seeds, and hand every run the same
\* model-init seed as the run with the same index of the other execution.
C6_SameSeedSameSeeds ==
  (x_args[1] = x_args[2] /\ x_pc[2] = "done") =>
    /\ x_seeds[1] = x_seeds[2]
    /\ x_model_seeds[1] = x_model_seeds[2]
    /\ x_runs[1] = x_runs[2]
    /\ \A i \in 1..Len(x_runs[1]) : x_runs[1][i].model_seed = x_model_seeds[2][i]

C6_Witness ==
  /\ x_args[1] = x_args[2] /\ x_pc[2] = "done"
  /\ x_args[1].n_cv = 2 /\ Len(x_runs[1]) = 2 /\ Len(x_runs[2]) = 2

\* C7: two executions with the same seed give the run with a given index the same split
\* seed and the same model-init seed, whatever their n_cv and start_cv are.
C7_SeedsDependOnSeedAndIndexOnly ==
  x_args[1].seed = x_args[2].seed =>
    \A i \in 1..Len(x_runs[1]) : \A j \in 1..Len(x_runs[2]) :
      x_runs[1][i].cv_id = x_runs[2][j].cv_id =>
        /\ x_runs[1][i].split_seed = x_runs[2][j].split_seed
        /\ x_runs[1][i].model_seed = x_runs[2][j].model_seed

\* The part of C7 that the code keeps: the split seed of a run depends on the seed
\* and the run index only.
SplitSeedsDependOnSeedAndIndexOnly ==
  x_args[1].seed = x_args[2].seed =>
    \A i \in 1..Len(x_runs[1]) : \A j \in 1..Len(x_runs[2]) :
      x_runs[1][i].cv_id = x_runs[2][j].cv_id =>
        x_runs[1][i].split_seed = x_runs[2][j].split_seed

C9_SequentialRunsOneReport ==
  /\ trace.started - trace.runs_done \in {0, 1}
  /\ pc # "aborted" => trace.started = trace.runs_done + (IF InRun THEN 1 ELSE 0)
  /\ pc \notin {"main", "build_dataset", "draw_seeds", "prepare", "aborted"} =>
       cv_id = trace.runs_done
  /\ Len(accs) = trace.runs_done
  /\ \A i \in 1..Len(accs) :
       accs[i] = Metric(i - 1, "test", select_loss(args.dataset).evaluator, "final")
  /\ Len(report) <= 1
  /\ Len(report) = 1 <=> pc = "done"
  /\ pc = "done" =>
       /\ Len(accs) = args.n_cv
       /\ trace.runs_done = args.n_cv
       /\ report[1] = [of |-> accs, n |-> args.n_cv, ddof |-> 0]

C9_Witness ==
  pc = "done" /\ args.n_cv = 2 /\ Len(accs) = 2 /\ Len(report) = 1

\* C10: every forward pass of the loop sees the gradients of both optimizers cleared;
\* both optimizers are stepped after every backward pass, on fresh gradients; outside
\* the two loops over the optimizers the two have been cleared and stepped equally
\* often, once per epoch, and inside them they differ by the one in progress.
C10_OptimizersInLockstep ==
  (InRun /\ pc \notin {"load_mask", "reset_seeds", "select_loss", "build_model",
                       "build_optimizers"}) =>
    /\ \A i \in 1..Len(hist.fwd) : \A o \in OptimizerNames : hist.fwd[i].grads[o] = "zero"
    /\ pc = "step" => \A o \in OptimizerNames : opt[o].grad \in {"fresh", "used"}
    /\ pc \notin {"zero_grad", "step"} =>
         /\ opt["Adam"].stepped = opt["SGD"].stepped
         /\ opt["Adam"].zeroed = opt["SGD"].zeroed
    /\ opt["Adam"].stepped - opt["SGD"].stepped \in {0, 1}
    /\ opt["Adam"].zeroed - opt["SGD"].zeroed \in {0, 1}
    /\ pc \in {"for_epoch", "load_checkpoint", "final_val", "final_test", "return"} =>
         \A o \in OptimizerNames :
           /\ opt[o].stepped = Len(hist.val)
           /\ opt[o].zeroed = Len(hist.val)
           /\ Len(hist.fwd) = Len(hist.val)

C10_Witness ==
  /\ pc = "for_epoch" /\ epoch = 2
  /\ opt["Adam"].stepped = 2 /\ opt["SGD"].stepped = 2
  /\ opt["Adam"].zeroed = 2 /\ opt["SGD"].zeroed = 2

\* C11: wherever run or evaluate consumes the forward output, a bare logits tensor
\* or a container whose first element is the tensor is accepted (no exception comes
\* of it), and with any other output nothing is ever computed from it.
C11_ForwardOutputNormalizedEverywhere ==
  /\ env.forward_out \in {"tensor", "container"} => ~(pc = "aborted" /\ err = "TypeError")
  /\ env.forward_out = "other" =>
       Len(hist.fwd) = 0 /\ Len(hist.val) = 0 /\ Len(hist.final) = 0

\* The part of C11 that the code keeps: evaluate accepts both shapes.
EvaluateNormalizes ==
  (pc = "aborted" /\ err = "TypeError" /\ env.forward_out = "container") =>
    (Len(hist.fwd) = 0 /\ Len(hist.val) = 0 /\ Len(hist.final) = 0 /\ args.n_epochs >= 1)

\* The value of the mixing parameters of a state dict.
AlphaValue(sd) == <<sd.run, sd.alpha>>

HasModel ==
  /\ InRun /\ pc \notin {"load_mask", "reset_seeds", "select_loss", "build_model"}
  /\ model.kind # "None"

AlphaChanges == HasModel /\ HasModel' /\ AlphaValue(model'.sd) # AlphaValue(model.sd)

IsSGDStep == pc = "step" /\ optimizers[oi] = "SGD"

IsReload == pc = "load_checkpoint" /\ args.early_stop

AfterLoop == {"load_checkpoint", "final_val", "final_test", "return"}

\* C13: a run that is entered is left again; its loop runs at most n_epochs epochs;
\* once a stopper call has signalled stop the loop is over, with no forward pass,
\* step or evaluation beyond that epoch; a loop left without a stop signal ran exactly
\* n_epochs epochs; and without early stopping no stopper exists or is called.
C13_RunTerminates ==
  /\ [](InRun => /\ epoch <= args.n_epochs
                 /\ Len(hist.fwd) <= args.n_epochs
                 /\ Len(hist.val) <= args.n_epochs)
  /\ [](InRun /\ stopper.early_stop =>
          /\ pc \in AfterLoop
          /\ Len(hist.fwd) = Len(hist.es)
          /\ Len(hist.val) = Len(hist.es)
          /\ \A o \in OptimizerNames : opt[o].stepped = Len(hist.es))
  /\ [](pc \in AfterLoop /\ ~stopper.early_stop =>
          /\ Len(hist.fwd) = args.n_epochs
          /\ Len(hist.val) = args.n_epochs
          /\ \A o \in OptimizerNames : opt[o].stepped = args.n_epochs)
  /\ [](InRun /\ ~args.early_stop => hist.es = <<>> /\ ~stopper.built)
  /\ (InRun ~> ~InRun)

C13_Witness ==
  /\ pc = "return" /\ args.early_stop /\ stopper.early_stop
  /\ args.n_epochs = 3 /\ Len(hist.val) = 2 /\ Len(hist.fwd) = 2

MasksObtained ==
  /\ Len(trace.mask_log) = trace.started
  /\ data.masks = Last(trace.mask_log)

\* C14: in run cv_id the generator is reset to model_seeds[cv_id], after the masks of
\* the run have been obtained and before the model is constructed, so the generator
\* state the model is initialised from is the one that seed gives, whatever was drawn
\* before in this or an earlier run.
C14_ModelInitFromModelSeed ==
  /\ InRun => model_seed = model_seeds[cv_id + 1]
  /\ pc \in {"select_loss", "build_model"} =>
       MasksObtained /\ rng = reset_random_seeds(model_seeds[cv_id + 1])
  /\ HasModel => MasksObtained /\ hist.init = reset_random_seeds(model_seeds[cv_id + 1])
  /\ pc \in {"load_mask", "reset_seeds", "select_loss", "build_model"} =>
       model = NoModel /\ hist.init = -1

C14_Witness ==
  /\ HasModel /\ cv_id = 1 /\ trace.trained
  /\ model_seeds[2] # data.seeds[2] /\ model_seeds[2] # model_seeds[1]
  /\ hist.init = reset_random_seeds(model_seeds[2])

\* Loss function and labels go with the metric mode.
Coherent(mode, loss_fcn, labels) ==
  /\ mode \in {"rocauc", "acc"}
  /\ mode = "rocauc" => loss_fcn = "BCEWithLogitsLoss" /\ labels = "one_hot_float"
  /\ mode = "acc" => loss_fcn = "NLLLoss" /\ labels = "int"

RunMode == IF args.dataset = "genius" THEN "rocauc" ELSE "acc"

\* C15: every evaluate call of a run, per epoch or final, is in rocauc mode exactly for
\* dataset genius, with float one-hot labels and the BCE-with-logits loss in rocauc mode
\* and integer labels and the NLL loss in accuracy mode; every training loss of the run
\* is computed with the same loss function and labels; the metrics the run hands back
\* are of that mode.
C15_ModeLossLabelsTogether ==
  InRun =>
    /\ \A u \in hist.used :
         u.evaluator = RunMode /\ Coherent(u.evaluator, u.loss_fcn, u.labels)
    /\ \A i \in 1..Len(hist.fwd) :
         Coherent(RunMode, hist.fwd[i].loss_fcn, hist.fwd[i].labels)
    /\ Len(hist.val) >= 1 => val.acc.mode = RunMode
    /\ pc = "return" => val.acc.mode = RunMode /\ test_acc.mode = RunMode

C15_Witness ==
  /\ pc = "return" /\ args.dataset = "genius" /\ Len(hist.fwd) = 2
  /\ {u.site : u \in hist.used} = {"epoch", "final"}
  /\ \A u \in hist.used : u.evaluator = "rocauc" /\ u.labels = "one_hot_float"
  /\ test_acc.mode = "rocauc"

\* C16: every training forward pass and every backward pass runs with the model in
\* training mode, though from the second epoch on the loop body is entered with the
\* model in evaluation mode, where the previous epoch's evaluate left it; every
\* evaluate call, per epoch or final, runs its forward in evaluation mode.
C16_TrainAndEvalModes ==
  InRun =>
    /\ \A i \in 1..Len(hist.fwd) : hist.fwd[i].mode = "train"
    /\ pc \in {"zero_grad", "forward", "backward"} => model.mode = "train"
    /\ (pc \in {"stopper", "final_test", "return"} \/ (pc = "train_mode" /\ epoch >= 1)) =>
         model.mode = "eval"
    /\ \A u \in hist.used : u.mode = "eval"

C16_Witness ==
  /\ pc = "return" /\ args.early_stop /\ hist.loaded # NoStateDict
  /\ Len(hist.fwd) = 3 /\ hist.fwd[3].mode = "train"
  /\ {u.site : u \in hist.used} = {"epoch", "final"}
  /\ \A u \in hist.used : u.mode = "eval"

\* C17: the state dict loaded at the end of a run with early stopping was written by
\* a stopper call of that same run.
C17_LoadedCheckpointIsOwn ==
  (InRun /\ args.early_stop /\ hist.loaded # NoStateDict) =>
    (hist.writes >= 1 /\ hist.loaded.run = cv_id)

\* What of C17 the code keeps: a run that calls the stopper at all writes the file in
\* its first call, so a run of at least one epoch loads a checkpoint of its own.
OwnCheckpointAfterFirstEpoch ==
  (InRun /\ args.early_stop /\ hist.loaded # NoStateDict /\ args.n_epochs >= 1) =>
    (hist.writes >= 1 /\ hist.loaded.run = cv_id)

====
